---- MODULE Spec2Model ----
(***************************************************************************)
(* Model of the glyph merge engine of unito (src/src/unito/merger.py):     *)
(* merge_glyphs_from_font and add_hani_by_frequency acting on one target   *)
(* font, with the helpers they call (codepoint policy, name synthesis,     *)
(* component closure, copy_glyph, add_cmap_entry).                         *)
(* Spec makes these calls on one target; SpecFn calls the helper functions *)
(* on their own; SpecMain is a run of main() over the input folders, with  *)
(* the worker pool of process_fonts_parallel.                              *)
(*                                                                         *)
(* A glyph name is a sequence of one-character strings, so that the        *)
(* formatting of synthesized names (f"u{cp:04X}", f"comp_{n}.{k}") is      *)
(* computed digit by digit and can be inspected.                           *)
(*                                                                         *)
(* A font is a record                                                      *)
(*   id      : which file it came from (0 is the base font),               *)
(*   hasGlyf : "glyf" in font,                                             *)
(*   pad     : number of further glyphs of the glyph order whose names no  *)
(*             source font uses and no name synthesis produces, so that    *)
(*             a glyph order of 65535 names can be represented,            *)
(*   order   : the named part of font.getGlyphOrder(),                     *)
(*   cmap    : font.getBestCmap(), codepoint -> glyph name,                *)
(*   glyf    : glyph name -> [comps: component names, outline: identity]   *)
(***************************************************************************)
EXTENDS Integers, Sequences, FiniteSets, TLC

VARIABLES
  has_unicodedata2,  \* merger.py:28-32: FALSE when "import unicodedata2" failed
  hani_dir,          \* the hani/ folder: Hani.jsonl and the donor fonts
  target,            \* target_font, the accumulator
  shadow,            \* target_font after a second run of the last call from the same
                     \* target, whose component sets iterate in ShadowOrder
  last,              \* what the last call was given, found and returned
  calls,             \* number of calls made so far
  has_script,        \* exclude.py:22-31: FALSE when script() is the 'Unknown' stub
  has_scale_upem,    \* merger.py:37-40: FALSE when scale_upem is None
  probe,             \* the call of a helper function under way or just made
  run                \* the run of main() under way: its position, its locals, the
                     \* input folders and the worker pool

vars == <<has_unicodedata2, hani_dir, target, shadow, last, calls,
          has_script, has_scale_upem, probe, run>>

(***************************************************************************)
(* Bounds of the model.                                                    *)
(***************************************************************************)
\* Calls of merge_glyphs_from_font / add_hani_by_frequency in one behaviour.
MaxCalls == 2
\* The target starts with no padding, or with MAX_GLYPHS - k glyphs, k in 0..Slack.
Slack == 2

MAX_GLYPHS == 65535

(***************************************************************************)
(* Generic helpers.                                                        *)
(***************************************************************************)
Range(s) == {s[i] : i \in DOMAIN s}

Min(S) == CHOOSE x \in S : \A y \in S : x <= y

RECURSIVE SortedSeq(_)
\* The ascending sequence of a finite set of integers.
SortedSeq(S) == IF S = {} THEN <<>> ELSE <<Min(S)>> \o SortedSeq(S \ {Min(S)})

\* All orders in which a set can be iterated.
Perms(S) == {p \in [1..Cardinality(S) -> S] : \A x \in S : \E i \in DOMAIN p : p[i] = x}

\* f with key k set to v (dict assignment d[k] = v).
Put(f, k, v) == [x \in DOMAIN f \cup {k} |-> IF x = k THEN v ELSE f[x]]

EmptyMap == [x \in {} |-> x]

(***************************************************************************)
(* Name formatting.                                                        *)
(***************************************************************************)
HexChars == <<"0","1","2","3","4","5","6","7","8","9","A","B","C","D","E","F">>
DecChars == <<"0","1","2","3","4","5","6","7","8","9">>

RECURSIVE DigitsOf(_, _, _)
\* The digits of n >= 0 in the given base, most significant first, no padding.
DigitsOf(n, base, chars) ==
  IF n < base THEN <<chars[n + 1]>>
  ELSE DigitsOf(n \div base, base, chars) \o <<chars[(n % base) + 1]>>

RECURSIVE ZeroPad(_, _)
ZeroPad(s, w) == IF Len(s) < w THEN ZeroPad(<<"0">> \o s, w) ELSE s

\* Python's format spec 0wX: uppercase hex, zero-padded to at least w digits.
FormatHex(n, w) == ZeroPad(DigitsOf(n, 16, HexChars), w)

\* Python's str(counter).
FormatDec(n) == DigitsOf(n, 10, DecChars)

synthesize_glyph_name(codepoint) ==
  IF codepoint <= 65535 THEN <<"u">> \o FormatHex(codepoint, 4)
  ELSE <<"u">> \o FormatHex(codepoint, 5)

CompPrefix == <<"c","o","m","p","_">>

\* f"{base}.{counter}"
Suffixed(base, counter) == base \o <<".">> \o FormatDec(counter)

RECURSIVE FirstFree(_, _, _)
FirstFree(base, used, counter) ==
  IF Suffixed(base, counter) \in used THEN FirstFree(base, used, counter + 1)
  ELSE Suffixed(base, counter)

\* A variant that takes the first candidate name without looking for a collision.
CollisionExtend_NoRetry(first, base, used) == first

\* name = first; counter = 1; while name in used: name = f"{base}.{counter}"; counter += 1
CollisionExtend(first, base, used) ==
  IF first \in used THEN FirstFree(base, used, 1) ELSE first

(***************************************************************************)
(* Unicode data of the codepoints the model's fonts use.                   *)
(***************************************************************************)
\* The codepoints the model's fonts map: U+0041, U+0042, U+4E00 (Han), U+AC00
\* (Hangul), U+1F600 (needs five hex digits) and U+10FFFD (private use, plane 16);
\* U+FA6E and U+D7A4, unassigned codepoints inside the CJK Compatibility Ideographs
\* and Hangul Syllables blocks; and, for the codepoint predicates alone, U+3007 (Han
\* script, outside the Han blocks), U+302E (Hangul script, outside the Hangul blocks),
\* U+17000 (Tangut), U+16FE0 (Tangut script, outside the Tangut blocks), U+D800 (a
\* surrogate) and 0x110000 (beyond the last codepoint).
CP == [A |-> 65, B |-> 66, Han |-> 19968, Hangul |-> 44032,
       Emoji |-> 128512, Pua |-> 1114109,
       HanGap |-> 64110, HangulGap |-> 55204,
       HanZero |-> 12295, HangulMark |-> 12334,
       Tangut |-> 94208, TangutMark |-> 94176,
       Surrogate |-> 55296, Beyond |-> 1114112]

\* unicodedata.script(chr(cp))
Script(cp) ==
  CASE cp \in {CP.A, CP.B} -> "Latn"
    [] cp \in {CP.Han, CP.HanZero}       -> "Hani"
    [] cp \in {CP.Hangul, CP.HangulMark} -> "Hang"
    [] cp \in {CP.Tangut, CP.TangutMark} -> "Tang"
    [] cp = CP.Emoji                     -> "Zyyy"
    [] OTHER                             -> "Zzzz"

\* unicodedata2.category(chr(cp))
Category(cp) ==
  CASE cp \in {CP.A, CP.B}                   -> "Lu"
    [] cp \in {CP.Han, CP.Hangul, CP.Tangut} -> "Lo"
    [] cp = CP.Emoji                         -> "So"
    [] cp = CP.HanZero                       -> "Nl"
    [] cp = CP.HangulMark                    -> "Mc"
    [] cp = CP.TangutMark                    -> "Lm"
    [] cp = CP.Pua                           -> "Co"
    [] cp = CP.Surrogate                     -> "Cs"
    [] OTHER                                 -> "Cn"

\* unicodedata2.name(chr(cp), None) is not None
HasName(cp) ==
  cp \in {CP.A, CP.B, CP.Han, CP.Hangul, CP.Emoji, CP.HanZero, CP.HangulMark,
          CP.TangutMark}

is_excluded_codepoint(codepoint, exclude_hani, exclude_hang) ==
  IF codepoint > 1114111 THEN FALSE          \* chr() raises ValueError
  ELSE IF exclude_hani /\ Script(codepoint) \in {"Hani", "Hans", "Hant"} THEN TRUE
  ELSE IF exclude_hang /\ Script(codepoint) = "Hang" THEN TRUE
  ELSE FALSE

is_valid_unicode_character(codepoint) ==
  IF ~has_unicodedata2 THEN TRUE
  ELSE IF codepoint > 1114111 THEN FALSE     \* chr() raises ValueError
  ELSE IF ~HasName(codepoint) /\ Category(codepoint) \in {"Cn", "Co", "Cs"} THEN FALSE
  ELSE TRUE

(***************************************************************************)
(* The documented block ranges (exclude.py).                               *)
(***************************************************************************)
HAN_RANGES ==
  {<<19968, 40959>>, <<13312, 19903>>, <<131072, 173791>>, <<173824, 177983>>,
   <<177984, 178207>>, <<178208, 183983>>, <<183984, 191471>>, <<196608, 201551>>,
   <<201552, 205743>>, <<191472, 192095>>, <<63744, 64255>>, <<194560, 195103>>}

TANGUT_RANGES == {<<94208, 100351>>, <<100352, 101119>>, <<101632, 101759>>}

HANGUL_RANGES ==
  {<<44032, 55215>>, <<4352, 4607>>, <<12592, 12687>>, <<43360, 43391>>,
   <<55216, 55295>>}

is_in_han_range(cp) == \E r \in HAN_RANGES : r[1] <= cp /\ cp <= r[2]

is_in_tangut_range(cp) == \E r \in TANGUT_RANGES : r[1] <= cp /\ cp <= r[2]

is_in_hangul_range(cp) == \E r \in HANGUL_RANGES : r[1] <= cp /\ cp <= r[2]

(***************************************************************************)
(* Fonts.                                                                  *)
(***************************************************************************)
nNotdef == <<".","n","o","t","d","e","f">>
nA == <<"A">>
nB == <<"B">>
nC == <<"C">>
nD == <<"D">>
nE == <<"E">>

\* A glyph of font id: its component references (empty for a simple glyph), the
\* identity of its outline and metrics, <<font, glyph name in that font>>, and the
\* units per em its coordinates and metrics are expressed in.
Glyph(id, name, comps, units) == [comps |-> comps, outline |-> <<id, name>>, units |-> units]

\* The source fonts, in filename order. The component graphs are acyclic.
\*  1: two simple glyphs; with a target covering U+0041 this is the scenario
\*     "base {0x41}, supplement {0x41, 0x42}".
\*  2: a composite A of the simple glyphs B and C, one codepoint.
\*  3: a composite A of B, itself a composite of C; Han and Hangul codepoints.
\*  4: one glyph with several codepoints; an emoji and a private-use codepoint.
\*  5: malformed: the cmap and a composite reference a glyph C that glyf lacks.
\*  6: CFF outlines, no glyf table.
\*  7: five simple glyphs, two of them for unassigned codepoints inside the CJK
\*     Compatibility Ideographs and the Hangul Syllables blocks.
\* upm is head.unitsPerEm: the target's (1000), the power of two next to it (1024),
\* another power of two (2048) and a value that is neither (2000).
Fonts == <<
  [id |-> 1, hasGlyf |-> TRUE, upm |-> 1000,
   cmap |-> (CP.A :> nA) @@ (CP.B :> nB),
   glyf |-> (nA :> Glyph(1, nA, <<>>, 1000)) @@ (nB :> Glyph(1, nB, <<>>, 1000))],
  [id |-> 2, hasGlyf |-> TRUE, upm |-> 2048,
   cmap |-> (CP.B :> nA),
   glyf |-> (nA :> Glyph(2, nA, <<nB, nC>>, 2048)) @@ (nB :> Glyph(2, nB, <<>>, 2048))
            @@ (nC :> Glyph(2, nC, <<>>, 2048))],
  [id |-> 3, hasGlyf |-> TRUE, upm |-> 1024,
   cmap |-> (CP.Han :> nA) @@ (CP.Hangul :> nB),
   glyf |-> (nA :> Glyph(3, nA, <<nB>>, 1024)) @@ (nB :> Glyph(3, nB, <<nC>>, 1024))
            @@ (nC :> Glyph(3, nC, <<>>, 1024))],
  [id |-> 4, hasGlyf |-> TRUE, upm |-> 2000,
   cmap |-> (CP.A :> nA) @@ (CP.Emoji :> nA) @@ (CP.Pua :> nB),
   glyf |-> (nA :> Glyph(4, nA, <<>>, 2000)) @@ (nB :> Glyph(4, nB, <<>>, 2000))],
  [id |-> 5, hasGlyf |-> TRUE, upm |-> 1000,
   cmap |-> (CP.B :> nA) @@ (CP.Emoji :> nC),
   glyf |-> (nA :> Glyph(5, nA, <<nB, nC>>, 1000)) @@ (nB :> Glyph(5, nB, <<>>, 1000))],
  [id |-> 6, hasGlyf |-> FALSE, upm |-> 1000,
   cmap |-> (CP.B :> nA),
   glyf |-> EmptyMap],
  [id |-> 7, hasGlyf |-> TRUE, upm |-> 1000,
   cmap |-> (CP.A :> nA) @@ (CP.B :> nB) @@ (CP.Emoji :> nC)
            @@ (CP.HangulGap :> nD) @@ (CP.HanGap :> nE),
   glyf |-> (nA :> Glyph(7, nA, <<>>, 1000)) @@ (nB :> Glyph(7, nB, <<>>, 1000))
            @@ (nC :> Glyph(7, nC, <<>>, 1000)) @@ (nD :> Glyph(7, nD, <<>>, 1000))
            @@ (nE :> Glyph(7, nE, <<>>, 1000))] >>

\* Every name a glyph of a source font references as a component.
CompNames ==
  UNION {Range(Fonts[i].glyf[n].comps) : <<i, n>> \in
           {<<j, m>> \in (DOMAIN Fonts) \X {nA, nB, nC, nD, nE} : m \in DOMAIN Fonts[j].glyf}}

\* The orders in which a set of component names may be iterated: Python iterates a
\* set of str in an order that depends on the process's hash seed.
Orders == Perms(CompNames)

\* The elements of S in the order ord lists them.
IterOrder(S, ord) == LET In(x) == x \in S IN SelectSeq(ord, In)

\* The order the second run iterates in.
ShadowOrder == CHOOSE ord \in Orders : TRUE

\* The target fonts a run may start from (the base font, instantiated).
\*  a: .notdef and A, U+0041 mapped.
\*  b: also glyphs named like a synthesized name (u0042) and like a component
\*     copy (comp_C), neither of them mapped.
BaseGlyph(name) == Glyph(0, name, <<>>, 1000)

TargetA ==
  [id |-> 0, hasGlyf |-> TRUE, pad |-> 0, upm |-> 1000,
   order |-> <<nNotdef, nA>>,
   cmap |-> (CP.A :> nA),
   glyf |-> (nNotdef :> BaseGlyph(nNotdef)) @@ (nA :> BaseGlyph(nA))]

TargetB ==
  [id |-> 0, hasGlyf |-> TRUE, pad |-> 0, upm |-> 1000,
   order |-> <<nNotdef, nA, synthesize_glyph_name(CP.B), CompPrefix \o nC>>,
   cmap |-> (CP.A :> nA),
   glyf |-> (nNotdef :> BaseGlyph(nNotdef)) @@ (nA :> BaseGlyph(nA))
            @@ (synthesize_glyph_name(CP.B) :> BaseGlyph(synthesize_glyph_name(CP.B)))
            @@ (CompPrefix \o nC :> BaseGlyph(CompPrefix \o nC))]

\* A variant that counts one glyph too few.
GlyphCount_OneLess(font) == font.pad + Len(font.order) - 1

\* len(font.getGlyphOrder())
GlyphCount(font) == font.pad + Len(font.order)

\* A base target padded to n glyphs.
Padded(t, n) == [t EXCEPT !.pad = n - Len(t.order)]

InitialTargets ==
  {TargetA, TargetB}
  \cup {Padded(t, MAX_GLYPHS - k) : t \in {TargetA, TargetB}, k \in 0..Slack}

(***************************************************************************)
(* Units per em.                                                           *)
(***************************************************************************)
RECURSIVE BitAnd(_, _)
\* a & b of two non-negative integers
BitAnd(a, b) ==
  IF a = 0 \/ b = 0 THEN 0
  ELSE (a % 2) * (b % 2) + 2 * BitAnd(a \div 2, b \div 2)

\* A variant that takes every positive even number for a power of two.
is_power_of_two_Even(n) == n > 0 /\ n % 2 = 0

is_power_of_two(n) == n > 0 /\ BitAnd(n, n - 1) = 0

RECURSIVE Pow2(_)
Pow2(k) == IF k = 0 THEN 1 ELSE 2 * Pow2(k - 1)

RECURSIVE RoundLog2From(_, _)
\* round(math.log2(n)) for n >= 1: the least k >= kmin with log2(n) < k + 1/2, that
\* is, with n * n < 2 * 4^k.  log2(n) is never halfway between two integers.
RoundLog2From(n, k) ==
  IF n * n < 2 * Pow2(2 * k) THEN k ELSE RoundLog2From(n, k + 1)

RECURSIVE FloorPow2(_)
FloorPow2(n) == IF n < 2 THEN 1 ELSE 2 * FloorPow2(n \div 2)

\* A variant that truncates the logarithm instead of rounding it.
get_closest_power_of_two_Floor(n) == IF n <= 0 THEN 1 ELSE FloorPow2(n)

get_closest_power_of_two(n) ==
  IF n <= 0 THEN 1 ELSE Pow2(RoundLog2From(n, 0))

\* int(head.unitsPerEm); the fonts of the model have a head table.
get_upm(font) == font.upm

\* The font after scale_font_upm(font, target_upm): head.unitsPerEm is target_upm and
\* every glyph's coordinates and metrics are expressed at it.
scale_font_upm(font, target_upm) ==
  IF get_upm(font) = target_upm THEN font
  ELSE [font EXCEPT !.upm = target_upm,
                    !.glyf = [n \in DOMAIN @ |-> [@[n] EXCEPT !.units = target_upm]]]

\* A variant that always rescales to the target's units per em.
NormalizedUpm_AlwaysTarget(source_upm, target_upm) == target_upm

\* The units per em merge_glyphs_from_font brings a source to (merger.py:383-392).
NormalizedUpm(source_upm, target_upm) ==
  LET binary_upm == get_closest_power_of_two(target_upm)
  IN IF source_upm = target_upm \/ source_upm = binary_upm THEN source_upm
     ELSE IF is_power_of_two(source_upm) THEN binary_upm
     ELSE target_upm

\* int(x): truncation toward zero of the quotient a / b, b > 0.
Trunc(a, b) == IF a >= 0 THEN a \div b ELSE -((-a) \div b)

\* otRound(a / b) of fontTools: floor(a / b + 0.5), b > 0.
OtRound(a, b) == (2 * a + b) \div (2 * b)

(***************************************************************************)
(* Glyph graph and glyph copy.                                             *)
(***************************************************************************)
\* The glyph names of the cmap in the order dict(cmap).items() yields them first
\* (ascending codepoints, as the cmap subtable is decompiled).
RECURSIVE FirstSeen(_, _)
FirstSeen(names, seen) ==
  IF names = <<>> THEN <<>>
  ELSE IF Head(names) \in seen THEN FirstSeen(Tail(names), seen)
  ELSE <<Head(names)>> \o FirstSeen(Tail(names), seen \cup {Head(names)})

get_unicode_to_glyph_map(font) == font.cmap

\* glyph name -> set of codepoints, as the sequence of its keys in insertion order
\* and the function on them.
build_glyph_to_codepoints_map(font) ==
  LET cps   == SortedSeq(DOMAIN get_unicode_to_glyph_map(font))
      names == FirstSeen([i \in DOMAIN cps |-> font.cmap[cps[i]]], {})
  IN [keys |-> names,
      at   |-> [n \in Range(names) |-> {cp \in DOMAIN font.cmap : font.cmap[cp] = n}]]

\* A variant that leaves out the recursion: the direct components only.
get_component_glyphs_DirectOnly(font, glyph_name) ==
  IF ~font.hasGlyf THEN {}
  ELSE IF glyph_name \notin DOMAIN font.glyf THEN {}
  ELSE Range(font.glyf[glyph_name].comps)

RECURSIVE get_component_glyphs(_, _)
get_component_glyphs(font, glyph_name) ==
  IF ~font.hasGlyf THEN {}
  ELSE IF glyph_name \notin DOMAIN font.glyf THEN {}
  ELSE IF font.glyf[glyph_name].comps = <<>> THEN {}
  ELSE UNION {{c} \cup get_component_glyphs(font, c) :
                c \in Range(font.glyf[glyph_name].comps)}

\* The copied glyph: a deep copy with each component reference that is a key of
\* component_name_map renamed.
Renamed(glyph, component_name_map) ==
  [glyph EXCEPT !.comps =
     [i \in DOMAIN glyph.comps |->
        IF glyph.comps[i] \in DOMAIN component_name_map
        THEN component_name_map[glyph.comps[i]] ELSE glyph.comps[i]]]

\* A variant that returns True, without copying, for a glyph the source lacks.
copy_glyph_MissingIsTrue(source_font, target_font, source_glyph_name, target_glyph_name, component_name_map) ==
  IF source_font.hasGlyf /\ target_font.hasGlyf
  THEN IF source_glyph_name \notin DOMAIN source_font.glyf
       THEN [ok |-> TRUE, t |-> target_font]
       ELSE [ok |-> TRUE,
             t  |-> [target_font EXCEPT
                       !.glyf = Put(@, target_glyph_name,
                                    Renamed(source_font.glyf[source_glyph_name],
                                            component_name_map)),
                       !.order = IF target_glyph_name \in Range(@) THEN @
                                 ELSE Append(@, target_glyph_name)]]
  ELSE [ok |-> FALSE, t |-> target_font]

\* [ok: the value returned, t: the target font afterwards]
copy_glyph(source_font, target_font, source_glyph_name, target_glyph_name, component_name_map) ==
  IF source_font.hasGlyf /\ target_font.hasGlyf
  THEN IF source_glyph_name \notin DOMAIN source_font.glyf
       THEN [ok |-> FALSE, t |-> target_font]
       ELSE [ok |-> TRUE,
             t  |-> [target_font EXCEPT
                       !.glyf = Put(@, target_glyph_name,
                                    Renamed(source_font.glyf[source_glyph_name],
                                            component_name_map)),
                       !.order = IF target_glyph_name \in Range(@) THEN @
                                 ELSE Append(@, target_glyph_name)]]
  ELSE [ok |-> FALSE, t |-> target_font]

add_cmap_entry(font, codepoint, glyph_name) ==
  [font EXCEPT !.cmap = Put(@, codepoint, glyph_name)]

(***************************************************************************)
(* The merge ledger: the local variables of one call, with the target font *)
(* they act on.  stop, brk, failed and log only record what happened.      *)
(***************************************************************************)
NewLedger(target_font) ==
  [t                 |-> target_font,
   target_glyphs     |-> Range(target_font.order),
   covered           |-> DOMAIN get_unicode_to_glyph_map(target_font),
   glyphs_added      |-> 0,
   codepoints_added  |-> 0,
   glyph_name_mapping |-> EmptyMap,
   stop   |-> FALSE,   \* the loop over the glyphs left by its ceiling break
   brk    |-> FALSE,   \* the current component loop left by its ceiling break
   failed |-> FALSE,   \* some copy_glyph returned False
   log    |-> <<>>]    \* one entry per glyph the loop handled

RECURSIVE CopyComponents(_, _, _, _, _)
\* for comp_name in components: ... (merger.py:453-472 and 651-670), over the
\* component names in the order comps lists them.
CopyComponents(L, source_font, comps, is_base_font, current_glyph_count) ==
  IF comps = <<>> THEN L
  ELSE
    LET comp_name == Head(comps) IN
    IF comp_name \notin L.target_glyphs /\ comp_name \notin DOMAIN L.glyph_name_mapping
    THEN
      IF current_glyph_count + L.glyphs_added >= MAX_GLYPHS
      THEN [L EXCEPT !.brk = TRUE]
      ELSE
        LET comp_target_name ==
              CollisionExtend(IF is_base_font THEN comp_name ELSE CompPrefix \o comp_name,
                              CompPrefix \o comp_name, L.target_glyphs)
            r == copy_glyph(source_font, L.t, comp_name, comp_target_name, EmptyMap)
        IN IF r.ok
           THEN CopyComponents(
                  [L EXCEPT !.t = r.t,
                            !.glyph_name_mapping = Put(@, comp_name, comp_target_name),
                            !.target_glyphs = @ \cup {comp_target_name},
                            !.glyphs_added = @ + 1],
                  source_font, Tail(comps), is_base_font, current_glyph_count)
           ELSE CopyComponents([L EXCEPT !.failed = TRUE],
                               source_font, Tail(comps), is_base_font, current_glyph_count)
    ELSE CopyComponents(L, source_font, Tail(comps), is_base_font, current_glyph_count)

RECURSIVE AddCmapEntries(_, _, _)
\* for codepoint in codepoints: add_cmap_entry(target_font, codepoint, name)
AddCmapEntries(font, codepoints, glyph_name) ==
  IF codepoints = <<>> THEN font
  ELSE AddCmapEntries(add_cmap_entry(font, Head(codepoints), glyph_name),
                      Tail(codepoints), glyph_name)

\* One glyph: its components, then the glyph itself, then its codepoints
\* (merger.py:449-488 and 650-684).
CopyGlyphWithComponents(L, source_font, info, is_base_font, current_glyph_count, ord) ==
  LET components == get_component_glyphs(source_font, info.source_name)
      L1 == CopyComponents([L EXCEPT !.brk = FALSE], source_font,
                           IterOrder(components, ord), is_base_font, current_glyph_count)
      r  == copy_glyph(source_font, L1.t, info.source_name, info.target_name,
                       L1.glyph_name_mapping)
      L2 == IF r.ok
            THEN [L1 EXCEPT
                    !.t = AddCmapEntries(r.t, SortedSeq(info.codepoints), info.target_name),
                    !.glyph_name_mapping = Put(@, info.source_name, info.target_name),
                    !.target_glyphs = @ \cup {info.target_name},
                    !.glyphs_added = @ + 1,
                    !.codepoints_added = @ + Cardinality(info.codepoints),
                    !.covered = @ \cup info.codepoints]
            ELSE [L1 EXCEPT !.failed = TRUE]
      entry == [source_name |-> info.source_name,
                target_name |-> info.target_name,
                font        |-> source_font.id,
                codepoints  |-> info.codepoints,
                components  |-> components,
                names0      |-> L.target_glyphs,
                mapped0     |-> DOMAIN L.glyph_name_mapping,
                mapping1    |-> L1.glyph_name_mapping,
                count0      |-> GlyphCount(L.t),
                g0 |-> L.glyphs_added,      g1 |-> L2.glyphs_added,
                c0 |-> L.codepoints_added,  c1 |-> L2.codepoints_added,
                brk |-> L1.brk,
                ok  |-> r.ok]
  IN [L2 EXCEPT !.log = Append(@, entry)]

(***************************************************************************)
(* merge_glyphs_from_font                                                  *)
(***************************************************************************)
\* A variant that leaves out the test against target_codepoints_covered.
NewCodepoints_IgnoreCovered(source_codepoints, covered, exclude_hani, exclude_hang, is_base_font) ==
  {cp \in source_codepoints :
     /\ ~is_excluded_codepoint(cp, exclude_hani, exclude_hang)
     /\ (is_base_font \/ is_valid_unicode_character(cp))}

\* new_codepoints of one source glyph (merger.py:407-415)
NewCodepoints(source_codepoints, covered, exclude_hani, exclude_hang, is_base_font) ==
  {cp \in source_codepoints :
     /\ cp \notin covered
     /\ ~is_excluded_codepoint(cp, exclude_hani, exclude_hang)
     /\ (is_base_font \/ is_valid_unicode_character(cp))}

\* target_glyph_name of one accepted glyph (merger.py:420-428)
TargetGlyphName(source_glyph_name, new_codepoints, target_glyphs, is_base_font) ==
  IF is_base_font THEN source_glyph_name
  ELSE CollisionExtend(synthesize_glyph_name(Min(new_codepoints)),
                       synthesize_glyph_name(Min(new_codepoints)), target_glyphs)

RECURSIVE GlyphsToAdd(_, _, _, _, _, _, _)
\* glyphs_to_add (merger.py:404-436), over the source glyph names in keys
GlyphsToAdd(keys, at, covered, target_glyphs, exclude_hani, exclude_hang, is_base_font) ==
  IF keys = <<>> THEN <<>>
  ELSE
    LET new_codepoints == NewCodepoints(at[Head(keys)], covered,
                                        exclude_hani, exclude_hang, is_base_font)
        rest == GlyphsToAdd(Tail(keys), at, covered, target_glyphs,
                            exclude_hani, exclude_hang, is_base_font)
    IN IF new_codepoints = {} THEN rest
       ELSE <<[source_name |-> Head(keys),
               target_name |-> TargetGlyphName(Head(keys), new_codepoints,
                                               target_glyphs, is_base_font),
               codepoints  |-> new_codepoints]>> \o rest

RECURSIVE MergeLoop_CeilingOffByOne(_, _, _, _, _, _)
\* A variant whose ceiling test is > instead of >=.
MergeLoop_CeilingOffByOne(L, source_font, glyphs_to_add, is_base_font, current_glyph_count, ord) ==
  IF glyphs_to_add = <<>> THEN L
  ELSE IF current_glyph_count + L.glyphs_added > MAX_GLYPHS
  THEN [L EXCEPT !.stop = TRUE]
  ELSE MergeLoop_CeilingOffByOne(
         CopyGlyphWithComponents(L, source_font, Head(glyphs_to_add), is_base_font,
                                 current_glyph_count, ord),
         source_font, Tail(glyphs_to_add), is_base_font, current_glyph_count, ord)

RECURSIVE MergeLoop(_, _, _, _, _, _)
\* for glyph_info in glyphs_to_add: ... (merger.py:442-488)
MergeLoop(L, source_font, glyphs_to_add, is_base_font, current_glyph_count, ord) ==
  IF glyphs_to_add = <<>> THEN L
  ELSE IF current_glyph_count + L.glyphs_added >= MAX_GLYPHS
  THEN [L EXCEPT !.stop = TRUE]
  ELSE MergeLoop(
         CopyGlyphWithComponents(L, source_font, Head(glyphs_to_add), is_base_font,
                                 current_glyph_count, ord),
         source_font, Tail(glyphs_to_add), is_base_font, current_glyph_count, ord)

\* The ledger at the return, with skip telling which early return was taken and
\* ret the pair returned.
Returned(L, skip) ==
  [L |-> L, skip |-> skip, ret |-> <<L.glyphs_added, L.codepoints_added>>]

merge_glyphs_from_font(source_font, target_font, exclude_hani, exclude_hang, is_base_font, ord) ==
  IF ~source_font.hasGlyf THEN Returned(NewLedger(target_font), "not_truetype")
  ELSE
    LET scaled == scale_font_upm(source_font,
                                 NormalizedUpm(get_upm(source_font), get_upm(target_font)))
        current_glyph_count == GlyphCount(target_font)
        L0 == NewLedger(target_font)
        g2c == build_glyph_to_codepoints_map(scaled)
        glyphs_to_add == GlyphsToAdd(g2c.keys, g2c.at, L0.covered, L0.target_glyphs,
                                     exclude_hani, exclude_hang, is_base_font)
    IN IF current_glyph_count >= MAX_GLYPHS THEN Returned(L0, "limit")
       ELSE Returned(MergeLoop(L0, scaled, glyphs_to_add, is_base_font,
                               current_glyph_count, ord), "none")

(***************************************************************************)
(* add_hani_by_frequency                                                   *)
(***************************************************************************)
\* The hani/ folders a run may find: whether Hani.jsonl exists, the donor fonts in
\* filename order, and the ranked characters of Hani.jsonl (as codepoints).
HaniDirs ==
  {[has_jsonl |-> FALSE, donors |-> <<3>>, rank |-> <<CP.Han>>],
   [has_jsonl |-> TRUE,  donors |-> <<3>>, rank |-> <<CP.Han, CP.Hangul, CP.B>>],
   [has_jsonl |-> TRUE,  donors |-> <<2, 3>>, rank |-> <<CP.Han, CP.B, CP.Han>>],
   [has_jsonl |-> TRUE,  donors |-> <<5, 4>>, rank |-> <<CP.Emoji, CP.B, CP.Pua>>]}

\* collective_cmap of build_hani_cmap: the first donor that maps a codepoint wins.
build_hani_cmap(donors) ==
  [cp \in UNION {DOMAIN get_unicode_to_glyph_map(Fonts[donors[i]]) : i \in DOMAIN donors} |->
     LET first == Min({i \in DOMAIN donors : cp \in DOMAIN Fonts[donors[i]].cmap})
     IN [font |-> Fonts[donors[first]], glyph_name |-> Fonts[donors[first]].cmap[cp]]]

RECURSIVE HaniLoop(_, _, _, _, _)
\* for i, char in enumerate(hani_string): ... (merger.py:631-684)
HaniLoop(L, collective_cmap, hani_string, current_glyph_count, ord) ==
  IF hani_string = <<>> THEN L
  ELSE IF current_glyph_count + L.glyphs_added >= MAX_GLYPHS
  THEN [L EXCEPT !.stop = TRUE]
  ELSE
    LET codepoint == Head(hani_string) IN
    IF codepoint \in L.covered \/ codepoint \notin DOMAIN collective_cmap
    THEN HaniLoop(L, collective_cmap, Tail(hani_string), current_glyph_count, ord)
    ELSE
      LET source_font == collective_cmap[codepoint].font
          info == [source_name |-> collective_cmap[codepoint].glyph_name,
                   target_name |-> CollisionExtend(synthesize_glyph_name(codepoint),
                                                   synthesize_glyph_name(codepoint),
                                                   L.target_glyphs),
                   codepoints  |-> {codepoint}]
      IN HaniLoop(CopyGlyphWithComponents(L, source_font, info, FALSE,
                                          current_glyph_count, ord),
                  collective_cmap, Tail(hani_string), current_glyph_count, ord)

\* A variant that handles the characters in ascending codepoint order instead of
\* list order.
add_hani_by_frequency_SortedRank(target_font, dir, ord) ==
  IF ~dir.has_jsonl THEN Returned(NewLedger(target_font), "no_list")
  ELSE
    LET L0 == NewLedger(target_font)
        current_glyph_count == target_font.pad + Cardinality(L0.target_glyphs)
    IN Returned(HaniLoop(L0, build_hani_cmap(dir.donors), SortedSeq(Range(dir.rank)),
                         current_glyph_count, ord), "none")

add_hani_by_frequency(target_font, dir, ord) ==
  IF ~dir.has_jsonl THEN Returned(NewLedger(target_font), "no_list")
  ELSE
    LET L0 == NewLedger(target_font)
        current_glyph_count == target_font.pad + Cardinality(L0.target_glyphs)
    IN Returned(HaniLoop(L0, build_hani_cmap(dir.donors), dir.rank,
                         current_glyph_count, ord), "none")

(***************************************************************************)
(* The state machine: calls on one target, one after the other.            *)
(***************************************************************************)
NoProbe == [kind |-> "none"]

\* main() has not been called.
NoRun == [pc |-> "none"]

NoCall ==
  [kind |-> "none", font |-> 0, exclude_hani |-> FALSE, exclude_hang |-> FALSE,
   is_base_font |-> FALSE, pre |-> TargetA, ret |-> <<0, 0>>, skip |-> "none",
   stop |-> FALSE, failed |-> FALSE, log |-> <<>>, repeat |-> FALSE]

Init ==
  /\ has_unicodedata2 \in BOOLEAN
  /\ hani_dir \in HaniDirs
  /\ target \in InitialTargets
  /\ shadow = target
  /\ last = NoCall
  /\ calls = 0
  /\ has_script = TRUE
  /\ has_scale_upem = TRUE
  /\ probe = NoProbe
  /\ run = NoRun

\* One call merge_glyphs_from_font(source_font, target_font, ...), and the same call
\* made in a second run from the same target.
MergeCall ==
  /\ calls < MaxCalls
  /\ \E f \in DOMAIN Fonts, exclude_hani \in BOOLEAN, exclude_hang \in BOOLEAN,
        is_base_font \in BOOLEAN, ord \in Orders :
       \E r  \in {merge_glyphs_from_font(Fonts[f], target, exclude_hani, exclude_hang,
                                         is_base_font, ord)},
          r2 \in {merge_glyphs_from_font(Fonts[f], target, exclude_hani, exclude_hang,
                                         is_base_font, ShadowOrder)} :
          /\ target' = r.L.t
          /\ shadow' = r2.L.t
          /\ last' = [kind |-> "merge", font |-> f, exclude_hani |-> exclude_hani,
                      exclude_hang |-> exclude_hang, is_base_font |-> is_base_font,
                      pre |-> target, ret |-> r.ret, skip |-> r.skip,
                      stop |-> r.L.stop, failed |-> r.L.failed, log |-> r.L.log,
                      repeat |-> /\ last.kind = "merge"
                                 /\ last.font = f
                                 /\ last.exclude_hani = exclude_hani
                                 /\ last.exclude_hang = exclude_hang
                                 /\ last.is_base_font = is_base_font]
  /\ calls' = calls + 1
  /\ UNCHANGED <<has_unicodedata2, hani_dir, has_script, has_scale_upem, probe, run>>

\* One call add_hani_by_frequency(target_font, hani_dir, ...), and the same call made
\* in a second run from the same target.
HaniCall ==
  /\ calls < MaxCalls
  /\ \E ord \in Orders :
       \E r  \in {add_hani_by_frequency(target, hani_dir, ord)},
          r2 \in {add_hani_by_frequency(target, hani_dir, ShadowOrder)} :
          /\ target' = r.L.t
          /\ shadow' = r2.L.t
          /\ last' = [kind |-> "hani", font |-> 0, exclude_hani |-> FALSE,
                      exclude_hang |-> FALSE, is_base_font |-> FALSE,
                      pre |-> target, ret |-> r.ret, skip |-> r.skip,
                      stop |-> r.L.stop, failed |-> r.L.failed, log |-> r.L.log,
                      repeat |-> last.kind = "hani"]
  /\ calls' = calls + 1
  /\ UNCHANGED <<has_unicodedata2, hani_dir, has_script, has_scale_upem, probe, run>>

Next == MergeCall \/ HaniCall

Spec == Init /\ [][Next]_vars

(***************************************************************************)
(* exclude.py: script detection with range fallback.                       *)
(***************************************************************************)
\* script(chr(cp)) of exclude.py, "ValueError" when chr(cp) raises.
ScriptLookup(cp) ==
  IF cp < 0 \/ cp > 1114111 THEN "ValueError"
  ELSE IF has_script THEN Script(cp)
  ELSE "Unknown"

\* A variant without the range fallback.
is_han_script_NoFallback(cp) == ScriptLookup(cp) \in {"Han", "Hani"}

is_han_script(cp) ==
  IF ScriptLookup(cp) \in {"Han", "Hani"} THEN TRUE ELSE is_in_han_range(cp)

is_hangul_script(cp) ==
  IF ScriptLookup(cp) \in {"Hangul", "Hang"} THEN TRUE ELSE is_in_hangul_range(cp)

is_tangut_script(cp) ==
  IF ScriptLookup(cp) \in {"Tangut", "Tang"} THEN TRUE ELSE is_in_tangut_range(cp)

should_exclude_codepoint(cp, exclude_hani, exclude_hang, exclude_tang, extra_excludes) ==
  IF extra_excludes # {} /\ cp \in extra_excludes THEN TRUE
  ELSE IF exclude_hani /\ is_han_script(cp) THEN TRUE
  ELSE IF exclude_hang /\ is_hangul_script(cp) THEN TRUE
  ELSE IF exclude_tang /\ is_tangut_script(cp) THEN TRUE
  ELSE FALSE

(***************************************************************************)
(* The helper functions, called on their own.                              *)
(***************************************************************************)
\* Arguments of get_closest_power_of_two and is_power_of_two: -2 .. MaxN.
MaxN == 48

\* head.unitsPerEm values of a source and a target.
UpmValues == {512, 1000, 1024, 1500, 2000, 2048}

\* Outline coordinates of a source glyph.
Coordinates == {-2048, -3, 0, 1, 1000, 2047}

\* The frames get_component_glyphs may stack before the interpreter raises
\* RecursionError (sys.getrecursionlimit() is 1000 by default).
MaxDepth == 5

\* The fonts get_component_glyphs is called on: the composite, the nested and the
\* malformed source font, a glyph that is its own component, and two glyphs that
\* are each other's component.
WalkFonts == <<
  Fonts[2], Fonts[3], Fonts[5],
  [id |-> 8, hasGlyf |-> TRUE, upm |-> 1000, cmap |-> (CP.B :> nA),
   glyf |-> (nA :> Glyph(8, nA, <<nA>>, 1000))],
  [id |-> 9, hasGlyf |-> TRUE, upm |-> 1000, cmap |-> (CP.B :> nA),
   glyf |-> (nA :> Glyph(9, nA, <<nB>>, 1000)) @@ (nB :> Glyph(9, nB, <<nA, nC>>, 1000))
            @@ (nC :> Glyph(9, nC, <<>>, 1000))] >>

InitFn ==
  /\ has_unicodedata2 \in BOOLEAN
  /\ has_script \in BOOLEAN
  /\ has_scale_upem \in BOOLEAN
  /\ hani_dir = CHOOSE d \in HaniDirs : ~d.has_jsonl
  /\ target = TargetA
  /\ shadow = TargetA
  /\ last = NoCall
  /\ calls = 0
  /\ probe = NoProbe
  /\ run = NoRun

\* No helper function has been called yet: a behaviour makes one call.
Idle == probe.kind = "none"

\* A call of get_component_glyphs is under way.
Walking == IF probe.kind = "walk" THEN probe.status = "running" ELSE FALSE

Env == <<has_unicodedata2, has_script, has_scale_upem, hani_dir, target, shadow, last, calls, run>>

\* get_closest_power_of_two(n) and is_power_of_two(n)
PowerCall ==
  /\ Idle
  /\ \E n \in -2..MaxN :
       probe' = [kind |-> "power", n |-> n,
                 closest |-> get_closest_power_of_two(n),
                 is_power |-> is_power_of_two(n)]
  /\ UNCHANGED Env

\* The first step of merge_glyphs_from_font (merger.py:383-392) on a source whose
\* glyph has an outline point and a bounding box edge at x.  x_after is the
\* coordinate afterwards as the fraction num / den (the manual scaling stores the
\* product unrounded), xMin_after the bounding box edge.
NormalizeCall ==
  /\ Idle
  /\ \E source_upm \in UpmValues, target_upm \in UpmValues, x \in Coordinates :
       LET to == NormalizedUpm(source_upm, target_upm) IN
       probe' = [kind |-> "normalize", source_upm |-> source_upm,
                 target_upm |-> target_upm, x |-> x,
                 upm_after |-> to,
                 x_after |->
                   IF to = source_upm THEN [num |-> x, den |-> 1]
                   ELSE IF has_scale_upem THEN [num |-> OtRound(x * to, source_upm), den |-> 1]
                   ELSE [num |-> x * to, den |-> source_upm],
                 xMin_after |->
                   IF to = source_upm THEN x
                   ELSE IF has_scale_upem THEN OtRound(x * to, source_upm)
                   ELSE Trunc(x * to, source_upm)]
  /\ UNCHANGED Env

\* should_exclude_codepoint(cp, ...)
ExcludeCall ==
  /\ Idle
  /\ \E cp \in Range(CP), exclude_hani \in BOOLEAN, exclude_hang \in BOOLEAN,
        exclude_tang \in BOOLEAN, extra_excludes \in {{}, {CP.A, CP.HanZero}} :
       probe' = [kind |-> "exclude", cp |-> cp, exclude_hani |-> exclude_hani,
                 exclude_hang |-> exclude_hang, exclude_tang |-> exclude_tang,
                 extra_excludes |-> extra_excludes,
                 ret |-> should_exclude_codepoint(cp, exclude_hani, exclude_hang,
                                                  exclude_tang, extra_excludes)]
  /\ UNCHANGED Env

\* is_valid_unicode_character(cp)
ValidCall ==
  /\ Idle
  /\ \E cp \in Range(CP) :
       probe' = [kind |-> "valid", cp |-> cp, ret |-> is_valid_unicode_character(cp)]
  /\ UNCHANGED Env

\* The components of a glyph of a font as glyph.components lists them; none for a
\* name glyf lacks and for a simple glyph (merger.py:204-213).
ComponentsOf(font, glyph_name) ==
  IF ~font.hasGlyf THEN <<>>
  ELSE IF glyph_name \notin DOMAIN font.glyf THEN <<>>
  ELSE font.glyf[glyph_name].comps

\* A frame of get_component_glyphs: its glyph_name, the index of the component the
\* for loop takes next, and its components set.
Frame(glyph_name) == [glyph_name |-> glyph_name, i |-> 1, components |-> {}]

\* get_component_glyphs(font, glyph_name) is called.
WalkCall ==
  /\ Idle
  /\ \E f \in DOMAIN WalkFonts, glyph_name \in {nA, nB, nC} :
       probe' = [kind |-> "walk", font |-> f, glyph_name |-> glyph_name,
                 stack |-> <<Frame(glyph_name)>>, status |-> "running", ret |-> {}]
  /\ UNCHANGED Env

\* The for loop of the innermost frame takes its next component: components.add and
\* the recursive call (merger.py:215-218).
WalkDescend ==
  /\ Walking
  /\ LET d == Len(probe.stack)
         top == probe.stack[d]
         comps == ComponentsOf(WalkFonts[probe.font], top.glyph_name)
     IN /\ top.i <= Len(comps)
        /\ d < MaxDepth
        /\ probe' = [probe EXCEPT
                       !.stack = Append([@ EXCEPT ![d].i = @ + 1,
                                                 ![d].components = @ \cup {comps[top.i]}],
                                        Frame(comps[top.i]))]
  /\ UNCHANGED Env

\* The recursive call exceeds the interpreter's recursion limit: RecursionError
\* unwinds every frame.
WalkOverflow ==
  /\ Walking
  /\ LET d == Len(probe.stack)
         top == probe.stack[d]
         comps == ComponentsOf(WalkFonts[probe.font], top.glyph_name)
     IN /\ top.i <= Len(comps)
        /\ d >= MaxDepth
        /\ probe' = [probe EXCEPT !.stack = <<>>, !.status = "RecursionError"]
  /\ UNCHANGED Env

\* The innermost frame returns its components; its caller's components.update.
WalkReturn ==
  /\ Walking
  /\ LET d == Len(probe.stack)
         top == probe.stack[d]
         comps == ComponentsOf(WalkFonts[probe.font], top.glyph_name)
     IN /\ top.i > Len(comps)
        /\ probe' = IF d = 1
                    THEN [probe EXCEPT !.stack = <<>>, !.status = "returned",
                                       !.ret = top.components]
                    ELSE [probe EXCEPT
                            !.stack = [SubSeq(@, 1, d - 1) EXCEPT
                                         ![d - 1].components = @ \cup top.components]]
  /\ UNCHANGED Env

NextFn ==
  \/ PowerCall
  \/ NormalizeCall
  \/ ExcludeCall
  \/ ValidCall
  \/ WalkCall
  \/ WalkDescend
  \/ WalkOverflow
  \/ WalkReturn

SpecFn == InitFn /\ [][NextFn]_vars

(***************************************************************************)
(* main(): the pipeline over the input folders, with the worker pool of    *)
(* process_fonts_parallel.                                                 *)
(***************************************************************************)
\* Bound: the largest number os.cpu_count() reports.
MaxCpus == 2

\* The file names the input folders use, in ascending order.
FileNames == <<"a", "b", "c", "d", "e", "f">>

\* The place of a file name in the ascending order of names.
FileRank(name) == CHOOSE i \in DOMAIN FileNames : FileNames[i] = name

\* A font file: its name, what TTFont(path) finds ("corrupt": it raises), and the
\* font it holds.
File(name, kind, font) == [name |-> name, kind |-> kind, font |-> font]

BadFile == File("a", "corrupt", 0)
Ttf1 == File("b", "ttf", 1)
Ttf2 == File("c", "ttf", 2)
Otf1 == File("d", "otf", 6)
Otf2 == File("e", "otf", 6)
Otf3 == File("f", "otf", 6)

\* The contents 01in/02 .. 01in/05 may have (a folder that does not exist is empty).
InputDirs ==
  [d02 : {{}, {Ttf1}, {BadFile, Ttf1}},
   d03 : {{}, {Ttf1, Ttf2}, {BadFile, Otf1}},
   d04 : {{}, {Otf1, Otf2, Otf3}, {Ttf1, Ttf2, Otf1}},
   d05 : {{}, {Ttf1}, {Otf1, Otf2, Otf3}}]

RECURSIVE get_source_fonts(_)
\* sorted(fonts): the files of the folder in ascending order of name.
get_source_fonts(folder) ==
  IF folder = {} THEN <<>>
  ELSE LET first == CHOOSE f \in folder : \A g \in folder : FileRank(f.name) <= FileRank(g.name)
       IN <<first>> \o get_source_fonts(folder \ {first})

\* A variant that takes a font without TrueType outlines for a usable one.
extract_font_glyph_data_NoOutlineTest(font_path, exclude_hani, exclude_hang) ==
  IF font_path.kind = "corrupt"
  THEN [font_path |-> font_path, skip |-> TRUE, reason |-> "Error", glyph_data |-> {}]
  ELSE [font_path |-> font_path, skip |-> FALSE, reason |-> "", glyph_data |-> {}]

\* The dict the worker returns; glyph_data is given by its keys, the glyph names
\* with a codepoint that is neither excluded nor invalid.
extract_font_glyph_data(font_path, exclude_hani, exclude_hang) ==
  IF font_path.kind = "corrupt"
  THEN [font_path |-> font_path, skip |-> TRUE, reason |-> "Error", glyph_data |-> {}]
  ELSE IF ~Fonts[font_path.font].hasGlyf
  THEN [font_path |-> font_path, skip |-> TRUE, reason |-> "CFF/OTF", glyph_data |-> {}]
  ELSE LET g2c == build_glyph_to_codepoints_map(Fonts[font_path.font])
       IN [font_path |-> font_path, skip |-> FALSE, reason |-> "",
           glyph_data |-> {n \in Range(g2c.keys) :
                             \E cp \in g2c.at[n] :
                               /\ ~is_excluded_codepoint(cp, exclude_hani, exclude_hang)
                               /\ is_valid_unicode_character(cp)}]

\* What the parent appends for a completed future: its result, or a skip entry
\* when future.result() raises (merger.py:732-749).
CollectedResult(font_path, outcome) ==
  IF outcome.raised
  THEN [font_path |-> font_path, skip |-> TRUE, reason |-> "exc", glyph_data |-> {}]
  ELSE outcome.result

\* No call of process_fonts_parallel is under way.
IdlePool ==
  [status |-> "idle", paths |-> <<>>, max_workers |-> 0, exclude_hang |-> FALSE,
   state |-> <<>>, outcome |-> <<>>, results |-> <<>>]

\* The arguments main() gives process_fonts_parallel at each of its calls: the
\* folder and exclude_hang (exclude_hani is True at every call).
StageFolder(stage) ==
  CASE stage = "03a" -> run.dirs.d03
    [] stage = "03b" -> run.dirs.d03
    [] stage = "04"  -> run.dirs.d04
    [] stage = "05"  -> run.dirs.d05

StageLabel(stage) == IF stage \in {"03a", "03b"} THEN "03" ELSE stage

\* main() called with hang = True, so exclude_hang = False, except at the second call
\* for folder 03, which passes exclude_hang = True.
StageExcludeHang(stage) == stage = "03b"

\* main() at a call process_fonts_parallel(get_source_fonts(folder), ...).
CallPool(r, stage, label) ==
  [r EXCEPT !.pc = "extract", !.stage = stage,
            !.passes = IF label THEN Append(@, StageLabel(stage)) ELSE @,
            !.pool = [IdlePool EXCEPT !.status = "called",
                                      !.paths = get_source_fonts(StageFolder(stage)),
                                      !.exclude_hang = StageExcludeHang(stage)]]

Raise(r, exc) == [r EXCEPT !.pc = "raised", !.exc = exc]

\* The merge main() makes of one loaded source font.
PipelineMerge(font_path) ==
  merge_glyphs_from_font(Fonts[font_path.font], target, TRUE, FALSE, FALSE, run.ord).L.t

\* The hani/ folder of the runs of main().
MainHaniDir == [has_jsonl |-> TRUE, donors |-> <<3>>, rank |-> <<CP.Han, CP.Hangul, CP.B>>]

InitMain ==
  /\ has_unicodedata2 = TRUE
  /\ has_script = TRUE
  /\ has_scale_upem = TRUE
  /\ hani_dir = MainHaniDir
  /\ target = TargetA
  /\ shadow = TargetA
  /\ last = NoCall
  /\ calls = 0
  /\ probe = NoProbe
  /\ \E base_exists \in BOOLEAN, dirs \in InputDirs, cpus \in 1..MaxCpus,
        hani \in BOOLEAN, ord \in Orders :
       run = [pc |-> "start", exc |-> "none", base_exists |-> base_exists,
              dirs |-> dirs, cpus |-> cpus, hani |-> hani, ord |-> ord,
              opened |-> 0, saved |-> 0, passes |-> <<>>, merged |-> <<>>,
              stage |-> "", queue |-> <<>>, pool |-> IdlePool, pass_pre |-> TargetA]

Fixed == <<has_unicodedata2, has_script, has_scale_upem, hani_dir, shadow, last, calls, probe>>

\* merger.py:793-810: the base font.
MainStart ==
  /\ run.pc = "start"
  /\ run' = IF ~run.base_exists THEN Raise(run, "FileNotFoundError")
            ELSE [run EXCEPT !.pc = "pass02", !.opened = @ + 1,
                             !.passes = Append(@, "02"),
                             !.queue = get_source_fonts(run.dirs.d02)]
  /\ UNCHANGED <<target, Fixed>>

\* merger.py:812-827: one font of folder 02.
Pass02Merge ==
  /\ run.pc = "pass02" /\ run.queue # <<>>
  /\ LET font_path == Head(run.queue) IN
     IF font_path.kind = "corrupt"
     THEN run' = Raise(run, "TTLibError") /\ target' = target
     ELSE /\ target' = PipelineMerge(font_path)
          /\ run' = [run EXCEPT !.opened = @ + 1, !.queue = Tail(@),
                                !.merged = Append(@, [pass |-> Len(run.passes),
                                                      file |-> font_path.name])]
  /\ UNCHANGED Fixed

\* merger.py:829-839: folder 02 is done, process_fonts_parallel(fonts_03, ...).
Pass02Done ==
  /\ run.pc = "pass02" /\ run.queue = <<>>
  /\ run' = CallPool(run, "03a", TRUE)
  /\ UNCHANGED <<target, Fixed>>

\* merger.py:709-730: the early return for no paths, else one future per path.
PoolSubmit ==
  /\ run.pc = "extract" /\ run.pool.status = "called"
  /\ run' = IF run.pool.paths = <<>>
            THEN [run EXCEPT !.pool.status = "returned", !.pc = "merge", !.queue = <<>>,
                             !.pass_pre = target]
            ELSE LET n == Len(run.pool.paths)
                     max_workers == IF run.cpus < n THEN run.cpus ELSE n
                 IN IF max_workers <= 0 THEN Raise(run, "ValueError")
                    ELSE [run EXCEPT !.pool.status = "open",
                                     !.pool.max_workers = max_workers,
                                     !.pool.state = [i \in 1..n |-> "queued"],
                                     !.pool.outcome = [i \in 1..n |-> [raised |-> FALSE]]]
  /\ UNCHANGED <<target, Fixed>>

\* A worker process takes the next submitted call.
WorkerStart ==
  /\ run.pc = "extract" /\ run.pool.status = "open"
  /\ \E i \in DOMAIN run.pool.state :
       /\ run.pool.state[i] = "queued"
       /\ \A j \in 1..(i - 1) : run.pool.state[j] # "queued"
       /\ Cardinality({j \in DOMAIN run.pool.state : run.pool.state[j] = "running"})
            < run.pool.max_workers
       /\ run' = [run EXCEPT !.pool.state[i] = "running"]
  /\ UNCHANGED <<target, Fixed>>

\* merger.py:312-360: a worker's call returns, or its future fails.
WorkerFinish ==
  /\ run.pc = "extract" /\ run.pool.status = "open"
  /\ \E i \in DOMAIN run.pool.state, raised \in BOOLEAN :
       /\ run.pool.state[i] = "running"
       /\ run' = [run EXCEPT
                    !.pool.state[i] = "done",
                    !.pool.outcome[i] =
                      IF raised THEN [raised |-> TRUE]
                      ELSE [raised |-> FALSE,
                            result |-> extract_font_glyph_data(run.pool.paths[i], TRUE,
                                                               run.pool.exclude_hang)]]
  /\ UNCHANGED <<target, Fixed>>

\* merger.py:731-749: as_completed yields a finished future.
Collect ==
  /\ run.pc = "extract" /\ run.pool.status = "open"
  /\ \E i \in DOMAIN run.pool.state :
       /\ run.pool.state[i] = "done"
       /\ run' = [run EXCEPT
                    !.pool.state[i] = "collected",
                    !.pool.results = Append(@, CollectedResult(run.pool.paths[i],
                                                               run.pool.outcome[i]))]
  /\ UNCHANGED <<target, Fixed>>

\* merger.py:750: every future was yielded; font_data_list = results.
PoolReturn ==
  /\ run.pc = "extract" /\ run.pool.status = "open"
  /\ \A i \in DOMAIN run.pool.state : run.pool.state[i] = "collected"
  /\ run' = [run EXCEPT !.pool.status = "returned", !.pc = "merge",
                        !.queue = run.pool.results, !.pass_pre = target]
  /\ UNCHANGED <<target, Fixed>>

\* One entry of font_data_list (merger.py:842-858, 872-890, 903-921, 943-961): the
\* first loop loads with cache_dir=...; the others pass cache=font_cache, a name that
\* is defined nowhere.
ParallelMerge ==
  /\ run.pc = "merge" /\ run.queue # <<>>
  /\ LET font_data == Head(run.queue) IN
     IF font_data.skip
     THEN run' = [run EXCEPT !.queue = Tail(@)] /\ target' = target
     ELSE IF run.stage = "03a"
     THEN /\ target' = PipelineMerge(font_data.font_path)
          /\ run' = [run EXCEPT !.opened = @ + 1, !.queue = Tail(@),
                                !.merged = Append(@, [pass |-> Len(run.passes),
                                                      file |-> font_data.font_path.name])]
     ELSE run' = Raise(run, "NameError") /\ target' = target
  /\ UNCHANGED Fixed

\* The loop over font_data_list is done.
MergeDone ==
  /\ run.pc = "merge" /\ run.queue = <<>>
  /\ run' = CASE run.stage = "03a" -> CallPool(run, "03b", TRUE)
              [] run.stage = "03b" -> [run EXCEPT !.pc = "pass04"]
              [] run.stage = "04"  -> [run EXCEPT !.pc = "pass05"]
              [] run.stage = "05"  -> [run EXCEPT !.pc = "hani"]
  /\ UNCHANGED <<target, Fixed>>

\* merger.py:892-931: folder 04; with at most two fonts the loop is over fonts_05,
\* a local that is assigned only later.
Pass04 ==
  /\ run.pc = "pass04"
  /\ run' = IF Len(get_source_fonts(run.dirs.d04)) > 2
            THEN CallPool(run, "04", TRUE)
            ELSE Raise([run EXCEPT !.passes = Append(@, "04")], "UnboundLocalError")
  /\ UNCHANGED <<target, Fixed>>

\* merger.py:932-944, 962-963: folder 05.
Pass05 ==
  /\ run.pc = "pass05"
  /\ run' = IF Len(get_source_fonts(run.dirs.d05)) > 2
            THEN CallPool(run, "05", TRUE)
            ELSE [run EXCEPT !.pc = "pass05seq", !.passes = Append(@, "05"),
                             !.queue = get_source_fonts(run.dirs.d05)]
  /\ UNCHANGED <<target, Fixed>>

\* merger.py:963-964: one font of folder 05, loaded with cache=font_cache.
Pass05Merge ==
  /\ run.pc = "pass05seq" /\ run.queue # <<>>
  /\ run' = Raise(run, "NameError")
  /\ UNCHANGED <<target, Fixed>>

Pass05Done ==
  /\ run.pc = "pass05seq" /\ run.queue = <<>>
  /\ run' = [run EXCEPT !.pc = "hani"]
  /\ UNCHANGED <<target, Fixed>>

\* merger.py:977-986: the frequency-ranked ideographs, when asked for and present.
HaniPass ==
  /\ run.pc = "hani"
  /\ IF run.hani
     THEN /\ target' = add_hani_by_frequency(target, hani_dir, run.ord).L.t
          /\ run' = [run EXCEPT !.pc = "finalize", !.passes = Append(@, "hani"),
                                !.opened = @ + Len(hani_dir.donors)]
     ELSE /\ target' = target
          /\ run' = [run EXCEPT !.pc = "finalize"]
  /\ UNCHANGED Fixed

\* merger.py:988-1012: finalization, save, reload for the final counts.
Finalize ==
  /\ run.pc = "finalize"
  /\ run' = [run EXCEPT !.pc = "done", !.saved = @ + 1, !.opened = @ + 1]
  /\ UNCHANGED <<target, Fixed>>

NextMain ==
  \/ MainStart
  \/ Pass02Merge
  \/ Pass02Done
  \/ PoolSubmit
  \/ WorkerStart
  \/ WorkerFinish
  \/ Collect
  \/ PoolReturn
  \/ ParallelMerge
  \/ MergeDone
  \/ Pass04
  \/ Pass05
  \/ Pass05Merge
  \/ Pass05Done
  \/ HaniPass
  \/ Finalize

SpecMain == InitMain /\ [][NextMain]_vars

(***************************************************************************)
(* Properties.                                                             *)
(***************************************************************************)
SupplementMerge == last.kind = "merge" /\ ~last.is_base_font /\ last.skip = "none"
BaseMerge       == last.kind = "merge" /\ last.is_base_font /\ last.skip = "none"

\* C1: after any sequence of merge_glyphs_from_font and add_hani_by_frequency calls on
\* a target that starts with at most 65535 glyphs, the glyph order never holds more
\* than 65535 names.
C1_CeilingNeverExceeded == GlyphCount(target) <= MAX_GLYPHS

\* C2: a codepoint mapped in the target's codepoint table keeps the glyph name it was
\* first mapped to; no later call remaps or removes it.
C2_FirstWriterWins ==
  [][\A cp \in DOMAIN target.cmap :
       cp \in DOMAIN target'.cmap /\ target'.cmap[cp] = target.cmap[cp]]_vars

\* A second call has added codepoints from a font that also maps, to a glyph of its
\* own, a codepoint the first call had added.
C2_Witness ==
  /\ calls = 2
  /\ last.kind = "merge"
  /\ last.ret[2] > 0
  /\ \E cp \in DOMAIN Fonts[last.font].cmap \cap DOMAIN last.pre.cmap :
       /\ cp \notin DOMAIN TargetA.cmap
       /\ target.cmap[cp] = last.pre.cmap[cp]

\* C3: merge_glyphs_from_font called a second time with the same source, target and
\* options, directly after the first call, returns (0, 0) and changes neither the
\* target's glyph order nor its codepoint table.
C3_Idempotent ==
  (last.kind = "merge" /\ last.repeat) =>
     /\ last.ret = <<0, 0>>
     /\ target.order = last.pre.order
     /\ target.pad = last.pre.pad
     /\ target.cmap = last.pre.cmap

\* A codepoint that is assigned: not unassigned, private-use or surrogate.
Assigned(cp) == HasName(cp) \/ Category(cp) \notin {"Cn", "Co", "Cs"}

\* The source codepoints the claim C4 says a merge adds.
C4_Expected ==
  {cp \in DOMAIN Fonts[last.font].cmap :
     /\ cp \notin DOMAIN last.pre.cmap
     /\ ~is_excluded_codepoint(cp, last.exclude_hani, last.exclude_hang)
     /\ (last.is_base_font \/ Assigned(cp))}

NoBreak == ~last.stop /\ \A i \in DOMAIN last.log : ~last.log[i].brk

\* C4: for a merge that neither reaches the ceiling nor fails a glyph copy, the
\* codepoints added are exactly the source codepoints that were not in the target's
\* codepoint table, are not excluded by the policy and, unless is_base_font, are
\* assigned; the source glyphs copied as primary glyphs are those with such a codepoint.
C4_AddedCodepoints ==
  (last.kind = "merge" /\ last.skip = "none" /\ NoBreak /\ ~last.failed) =>
     /\ DOMAIN target.cmap \ DOMAIN last.pre.cmap = C4_Expected
     /\ last.ret[2] = Cardinality(C4_Expected)
     /\ {last.log[i].source_name : i \in DOMAIN last.log}
          = {Fonts[last.font].cmap[cp] : cp \in C4_Expected}

\* C5: every codepoint of the target's codepoint table references a glyph name of the
\* target's glyph order.
C5_CmapReferencesGlyphOrder ==
  \A cp \in DOMAIN target.cmap : target.cmap[cp] \in Range(target.order)

\* A call in which one copy_glyph failed and another glyph's codepoints were registered.
C5_Witness == last.failed /\ last.ret[2] > 0

\* C6: a merge that returns (g, c) has added exactly g names to the glyph order and
\* exactly c codepoints to the codepoint table.
C6_CountsAreActual ==
  last.kind = "merge" =>
     /\ GlyphCount(target) = GlyphCount(last.pre) + last.ret[1]
     /\ Cardinality(DOMAIN target.cmap) = Cardinality(DOMAIN last.pre.cmap) + last.ret[2]

RECURSIVE HexValue(_)
\* The number a sequence of uppercase hex digits denotes.
HexValue(digits) ==
  IF digits = <<>> THEN 0
  ELSE 16 * HexValue(SubSeq(digits, 1, Len(digits) - 1))
       + (CHOOSE d \in 0..15 : HexChars[d + 1] = digits[Len(digits)])

\* name is base, or base.k for the first k >= 1 whose base.k is not in used, when base
\* is in used.
IsCollisionExtended(name, base, used) ==
  IF base \notin used THEN name = base
  ELSE \E k \in 1..(Cardinality(used) + 1) :
         /\ name = base \o <<".">> \o FormatDec(k)
         /\ name \notin used
         /\ \A j \in 1..(k - 1) : (base \o <<".">> \o FormatDec(j)) \in used

\* C7: in a supplement merge each accepted glyph is named 'u' followed by the smallest
\* of its surviving codepoints in exactly 4 uppercase hex digits (exactly 5 above
\* 0xFFFF), or by the first free name.1, name.2, ... when that name is taken.
C7_SynthesizedNames ==
  SupplementMerge =>
    \A i \in DOMAIN last.log :
      LET e == last.log[i]
          p == Min(e.codepoints)
          w == IF p <= 65535 THEN 4 ELSE 5
          base == SubSeq(e.target_name, 1, w + 1)
      IN /\ Len(e.target_name) >= w + 1
         /\ base[1] = "u"
         /\ \A j \in 2..(w + 1) : base[j] \in Range(HexChars)
         /\ HexValue(SubSeq(base, 2, w + 1)) = p
         /\ IsCollisionExtended(e.target_name, base, Range(last.pre.order))

\* C8: in a base-font merge an accepted glyph keeps its source name, with a numeric
\* suffix when that name is taken, so that no glyph already in the target has its
\* outline or metrics overwritten.
C8_BaseKeepsGlyphs ==
  BaseMerge =>
    /\ \A i \in DOMAIN last.log :
         IsCollisionExtended(last.log[i].target_name, last.log[i].source_name,
                             Range(last.pre.order))
    /\ \A n \in Range(last.pre.order) : target.glyf[n] = last.pre.glyf[n]

\* C9: two runs of a supplement merge, or of add_hani_by_frequency, from identical
\* targets with identical inputs end with the same glyphs under the same names and the
\* same codepoint table, whatever order the component-name sets are iterated in.
C9_Deterministic ==
  (SupplementMerge \/ last.kind = "hani") =>
     /\ Range(shadow.order) = Range(target.order)
     /\ shadow.glyf = target.glyf
     /\ shadow.cmap = target.cmap

\* The component references of glyph x of a font.
Refs(font, x) == IF x \in DOMAIN font.glyf THEN Range(font.glyf[x].comps) ELSE {}

RECURSIVE Grow(_, _, _)
Grow(font, S, n) ==
  IF n = 0 THEN S ELSE Grow(font, S \cup UNION {Refs(font, x) : x \in S}, n - 1)

\* The names glyph x references directly or transitively.
Closure(font, x) == Grow(font, Refs(font, x), Cardinality(DOMAIN font.glyf))

Pos(seq, x) == CHOOSE i \in DOMAIN seq : seq[i] = x

\* C10: when a supplement merge accepts a composite glyph whose k directly or
\* transitively referenced components exist in the source, have names absent from the
\* target and were not yet copied in this pass, and there is room for k + 1 glyphs, it
\* copies the k components under comp_<original> names (collision-extended) before the
\* composite, counts k + 1 glyphs and counts only the composite's surviving codepoints.
C10_CompositeCopy ==
  SupplementMerge =>
    \A i \in DOMAIN last.log :
      LET e     == last.log[i]
          src   == Fonts[last.font]
          comps == Closure(src, e.source_name)
          k     == Cardinality(comps)
      IN (/\ k > 0
          /\ comps \subseteq DOMAIN src.glyf
          /\ comps \cap e.names0 = {}
          /\ comps \cap e.mapped0 = {}
          /\ e.count0 + k + 1 <= MAX_GLYPHS)
         =>
         /\ e.ok /\ ~e.brk
         /\ e.g1 - e.g0 = k + 1
         /\ e.c1 - e.c0 = Cardinality(e.codepoints)
         /\ \A c \in comps :
              /\ c \in DOMAIN e.mapping1
              /\ \/ e.mapping1[c] = CompPrefix \o c
                 \/ /\ (CompPrefix \o c) \in e.names0
                    /\ \E j \in 1..Len(target.order) :
                         e.mapping1[c] = (CompPrefix \o c) \o <<".">> \o FormatDec(j)
              /\ e.mapping1[c] \in Range(target.order)
              /\ e.mapping1[c] \notin e.names0
              /\ Pos(target.order, e.mapping1[c]) < Pos(target.order, e.target_name)
              /\ target.glyf[e.mapping1[c]].outline = <<src.id, c>>

\* The scenario: a composite with two unseen components and one new codepoint, merged
\* as a supplement, adds 3 glyphs and 1 codepoint.
C10_Witness ==
  /\ SupplementMerge
  /\ Len(last.log) = 1
  /\ Cardinality(Closure(Fonts[last.font], last.log[1].source_name)) = 2
  /\ last.log[1].mapped0 = {}
  /\ Cardinality(last.log[1].codepoints) = 1
  /\ last.ret = <<3, 1>>

\* C11: after a merge that does not reach the ceiling, every glyph the merge copied,
\* accepted glyph or component copy, has each reference to a component copied in this
\* pass rewritten to the target name that component received.
C11_ReferencesRewritten ==
  (last.kind = "merge" /\ last.skip = "none" /\ NoBreak) =>
    \A i \in DOMAIN last.log :
      LET e == last.log[i]
          src == Fonts[last.font]
          copied == ((DOMAIN e.mapping1 \ e.mapped0) \ {e.source_name})
                    \cup (IF e.ok THEN {e.source_name} ELSE {})
          NameOf(g) == IF g = e.source_name THEN e.target_name ELSE e.mapping1[g]
      IN \A g \in copied \cap DOMAIN src.glyf :
           \A j \in DOMAIN src.glyf[g].comps :
             src.glyf[g].comps[j] \in DOMAIN e.mapping1 =>
               target.glyf[NameOf(g)].comps[j] = e.mapping1[src.glyf[g].comps[j]]

\* The source glyphs a supplement merge accepts: those with a codepoint that passes
\* the filters of the merge.
C12_Offered ==
  LET src == Fonts[last.font] IN
  {g \in Range(src.cmap) :
     NewCodepoints({cp \in DOMAIN src.cmap : src.cmap[cp] = g}, DOMAIN last.pre.cmap,
                   last.exclude_hani, last.exclude_hang, FALSE) # {}}

\* A supplement merge into a target of N < 65535 glyphs from a source that offers k
\* non-composite glyphs, N + k > 65535.
C12_Case ==
  /\ last.kind = "merge" /\ ~last.is_base_font
  /\ last.pre.pad + Len(last.pre.order) < MAX_GLYPHS
  /\ Fonts[last.font].hasGlyf
  /\ \A g \in C12_Offered : g \in DOMAIN Fonts[last.font].glyf /\ Refs(Fonts[last.font], g) = {}
  /\ last.pre.pad + Len(last.pre.order) + Cardinality(C12_Offered) > MAX_GLYPHS

\* C12: if the target holds N < 65535 glyphs and a supplement source offers k new
\* non-composite glyphs with N + k > 65535, the merge copies exactly 65535 - N of them,
\* registers the codepoints of those only, returns these counts and copies no other
\* glyph.
C12_GracefulStop ==
  C12_Case =>
    LET room  == MAX_GLYPHS - (last.pre.pad + Len(last.pre.order))
        names == {last.log[i].target_name : i \in DOMAIN last.log}
        cps   == UNION {last.log[i].codepoints : i \in DOMAIN last.log}
    IN /\ Len(last.log) = room
       /\ \A i \in DOMAIN last.log : last.log[i].ok /\ last.log[i].source_name \in C12_Offered
       /\ \A i, j \in DOMAIN last.log : last.log[i].source_name = last.log[j].source_name => i = j
       /\ last.ret = <<room, Cardinality(cps)>>
       /\ target.pad + Len(target.order) = MAX_GLYPHS
       /\ Range(target.order) \ Range(last.pre.order) = names
       /\ DOMAIN target.glyf = DOMAIN last.pre.glyf \cup names
       /\ \A n \in DOMAIN last.pre.glyf : target.glyf[n] = last.pre.glyf[n]
       /\ DOMAIN target.cmap \ DOMAIN last.pre.cmap = cps
       /\ \A cp \in cps : \E i \in DOMAIN last.log :
            cp \in last.log[i].codepoints /\ target.cmap[cp] = last.log[i].target_name

\* A target of 65534 glyphs and a source offering 4 glyphs: exactly 1 is added.
C12_Witness ==
  /\ C12_Case
  /\ last.pre.pad + Len(last.pre.order) = MAX_GLYPHS - 1
  /\ Cardinality(C12_Offered) = 4
  /\ last.ret[1] = 1

\* C13: when the source has no glyf table, or the target already holds 65535 or more
\* glyphs, merge_glyphs_from_font returns (0, 0) and leaves the target's glyph order,
\* codepoint table and glyphs unchanged.
C13_SkipsLeaveTarget ==
  (/\ last.kind = "merge"
   /\ \/ ~Fonts[last.font].hasGlyf
      \/ last.pre.pad + Len(last.pre.order) >= MAX_GLYPHS)
  => /\ last.ret = <<0, 0>>
     /\ target = last.pre

\* A merge into a full target from a TrueType source with an uncovered codepoint.
C13_Witness ==
  /\ last.kind = "merge"
  /\ last.skip = "limit"
  /\ Fonts[last.font].hasGlyf
  /\ DOMAIN Fonts[last.font].cmap \ DOMAIN last.pre.cmap # {}

\* C14: no merge with exclude_hani (exclude_hang) enabled, base or supplement, adds a
\* codepoint of a documented Han (Hangul) block range to the codepoint table.
C14_ExcludedBlocksNeverAdded ==
  last.kind = "merge" =>
    \A cp \in DOMAIN target.cmap \ DOMAIN last.pre.cmap :
      /\ last.exclude_hani => ~is_in_han_range(cp)
      /\ last.exclude_hang => ~is_in_hangul_range(cp)

\* The call had exactly the toggle of one script enabled.
OnlyToggle(s) ==
  /\ probe.kind = "exclude"
  /\ probe.exclude_hani = (s = "Hani")
  /\ probe.exclude_hang = (s = "Hang")
  /\ probe.exclude_tang = (s = "Tang")

\* cp lies in a documented block range of script s.
InDocumented(s, cp) ==
  CASE s = "Hani" -> \E r \in HAN_RANGES : r[1] <= cp /\ cp <= r[2]
    [] s = "Hang" -> \E r \in HANGUL_RANGES : r[1] <= cp /\ cp <= r[2]
    [] s = "Tang" -> \E r \in TANGUT_RANGES : r[1] <= cp /\ cp <= r[2]

\* The script-property lookup is available and reports script s for cp.
ScriptReports(s, cp) == has_script /\ cp >= 0 /\ cp <= 1114111 /\ Script(cp) = s

\* C15 as stated: with only one script's toggle enabled, should_exclude_codepoint
\* returns true for a codepoint in a documented block range of the script, and false
\* for a codepoint outside them that is not in the extra-exclude set.
C15_RangesDecide ==
  \A s \in {"Hani", "Hang", "Tang"} :
    OnlyToggle(s) =>
      /\ InDocumented(s, probe.cp) => probe.ret
      /\ (~InDocumented(s, probe.cp) /\ probe.cp \notin probe.extra_excludes) => ~probe.ret

\* C15, amended: with only one script's toggle enabled, should_exclude_codepoint
\* returns true exactly when the codepoint is in the extra-exclude set, or lies in a
\* documented block range of the script, or the script-property lookup is available and
\* reports that script for it.
C15_RangesOrScriptDecide ==
  \A s \in {"Hani", "Hang", "Tang"} :
    OnlyToggle(s) =>
      probe.ret = (\/ probe.cp \in probe.extra_excludes
                   \/ InDocumented(s, probe.cp)
                   \/ ScriptReports(s, probe.cp))

\* U+3007, of Han script and outside every documented Han range, is excluded by the
\* Han toggle alone.
C15_Witness ==
  /\ OnlyToggle("Hani")
  /\ probe.cp = CP.HanZero
  /\ probe.extra_excludes = {}
  /\ ~InDocumented("Hani", probe.cp)
  /\ probe.ret

\* C16: is_valid_unicode_character returns false for every private-use, surrogate or
\* unassigned codepoint and true for every assigned character, with or without
\* unicodedata2.
C16_ValidIsAssigned ==
  probe.kind = "valid" => probe.ret = (probe.cp <= 1114111 /\ Assigned(probe.cp))

\* The powers of two up to 4096.
Powers == {Pow2(k) : k \in 0..12}

\* The power of two nearest n, n >= 1, as 2^round(log2(n)) defines it: the p with
\* p / sqrt(2) < n < p * sqrt(2).
LogNearest(n) == CHOOSE p \in Powers : p * p < 2 * n * n /\ n * n < 2 * p * p

\* C17: the normalisation leaves the source unscaled when its UPM equals the target's
\* or the power of two nearest the target's; rescales it to that power of two when the
\* source UPM is another power of two; otherwise rescales it to the target's UPM; the
\* source's UPM afterwards is the target's UPM or that power of two.
C17_UpmPolicy ==
  probe.kind = "normalize" =>
    LET src == probe.source_upm
        tgt == probe.target_upm
        binary == LogNearest(tgt)
    IN /\ (src = tgt \/ src = binary) =>
            /\ probe.upm_after = src
            /\ probe.x_after = [num |-> probe.x, den |-> 1]
            /\ probe.xMin_after = probe.x
       /\ (src # tgt /\ src # binary /\ src \in Powers) => probe.upm_after = binary
       /\ (src # tgt /\ src # binary /\ src \notin Powers) => probe.upm_after = tgt
       /\ probe.upm_after \in {tgt, binary}

\* A 2048-UPM source against a 1000-UPM target is rescaled to 1024.
C17_Witness ==
  /\ probe.kind = "normalize"
  /\ probe.source_upm = 2048 /\ probe.target_upm = 1000
  /\ probe.upm_after = 1024

Abs(a) == IF a >= 0 THEN a ELSE -a

\* The normalisation of a 2048-UPM source against a 1000-UPM target.
C18_Case ==
  probe.kind = "normalize" /\ probe.source_upm = 2048 /\ probe.target_upm = 1000

\* C18 as stated: normalising a 2048-UPM source against a 1000-UPM target turns each
\* coordinate x into x * 1000 / 2048 = x * 125 / 256, up to truncation, and leaves the
\* source at 1000 UPM.
C18_ScaledToTarget ==
  C18_Case =>
    /\ probe.upm_after = 1000
    /\ Abs(probe.x_after.num * 256 - probe.x * 125 * probe.x_after.den)
         < 256 * probe.x_after.den
    /\ Abs(probe.xMin_after * 256 - probe.x * 125) < 256

\* C18, amended: normalising a 2048-UPM source against a 1000-UPM target turns each
\* coordinate x into x * 1024 / 2048 = x / 2, up to truncation, and leaves the source
\* at 1024 UPM, the power of two nearest 1000.
C18_ScaledToBinary ==
  C18_Case =>
    /\ probe.upm_after = 1024
    /\ Abs(probe.x_after.num * 2 - probe.x * probe.x_after.den)
         < 2 * probe.x_after.den
    /\ Abs(probe.xMin_after * 2 - probe.x) < 2

\* The coordinate 1000 of a 2048-UPM source becomes 500.
C18_Witness ==
  /\ C18_Case
  /\ probe.x = 1000
  /\ probe.x_after.num = 500 * probe.x_after.den
  /\ probe.xMin_after = 500

\* What C19 says of get_closest_power_of_two and is_power_of_two apart from the
\* distance: a power of two, n itself when n is one, 1 for n <= 0.
C19_Basics ==
  /\ probe.n >= 1 => probe.closest \in Powers
  /\ (probe.n >= 1 /\ probe.n \in Powers) => probe.closest = probe.n
  /\ probe.n <= 0 => probe.closest = 1
  /\ probe.is_power = (probe.n \in Powers)

\* C19 as stated: for n >= 1 no other power of two is strictly closer to n in
\* absolute difference than get_closest_power_of_two(n).
C19_ClosestInDifference ==
  probe.kind = "power" =>
    /\ C19_Basics
    /\ probe.n >= 1 =>
         \A q \in Powers : Abs(q - probe.n) >= Abs(probe.closest - probe.n)

\* C19, amended: for n >= 1 no other power of two is as close to n in ratio as
\* get_closest_power_of_two(n), which is 2^round(log2(n)).
C19_ClosestInRatio ==
  probe.kind = "power" =>
    /\ C19_Basics
    /\ probe.n >= 1 =>
         LET Hi(a) == IF a >= probe.n THEN a ELSE probe.n
             Lo(a) == IF a >= probe.n THEN probe.n ELSE a
         IN \A q \in Powers \ {probe.closest} :
              Hi(probe.closest) * Lo(q) < Hi(q) * Lo(probe.closest)

\* 23 is nearer to 16 in difference and nearer to 32 in ratio.
C19_Witness ==
  /\ probe.kind = "power"
  /\ probe.n = 23
  /\ probe.closest = 32
  /\ Abs(16 - probe.n) < Abs(probe.closest - probe.n)

\* C20: get_component_glyphs returns for every font and glyph name, cyclic component
\* references included, and returns the glyph names reachable through component
\* references; a revisited name is not an error.
C20_WalkReturnsClosure ==
  probe.kind = "walk" =>
    /\ probe.status # "RecursionError"
    /\ probe.status = "returned" =>
         probe.ret = Closure(WalkFonts[probe.font], probe.glyph_name)

\* A frequency injection that found its list.
Injection == last.kind = "hani" /\ last.skip = "none"

\* The ranked character cp can be injected into the target the call started from: it
\* is not covered, the collective map has it, and its donor has the glyph.
C21_Eligible(cp) ==
  LET collective_cmap == build_hani_cmap(hani_dir.donors) IN
  /\ cp \notin DOMAIN last.pre.cmap
  /\ cp \in DOMAIN collective_cmap
  /\ collective_cmap[cp].font.hasGlyf
  /\ collective_cmap[cp].glyph_name \in DOMAIN collective_cmap[cp].font.glyf

\* The first position of cp in the ranked list.
C21_Rank(cp) == Min({p \in DOMAIN hani_dir.rank : hani_dir.rank[p] = cp})

\* C21: add_hani_by_frequency handles the ranked characters in list order: when a
\* character is injected, every earlier character of the list that was not covered,
\* was in the collective map and had a copyable glyph has been injected before it;
\* characters covered or absent from the collective map add nothing (every codepoint
\* and every glyph added comes from a character that was neither).
C21_RankOrder ==
  Injection =>
    /\ \A j \in DOMAIN last.log :
         LET e == last.log[j] IN
         /\ \A cp \in e.codepoints :
              /\ cp \in Range(hani_dir.rank)
              /\ cp \notin DOMAIN last.pre.cmap
              /\ cp \in DOMAIN build_hani_cmap(hani_dir.donors)
         /\ e.ok =>
              \A cp \in e.codepoints :
                \A q \in 1..(C21_Rank(cp) - 1) :
                  C21_Eligible(hani_dir.rank[q]) =>
                    \E i \in 1..(j - 1) :
                      last.log[i].ok /\ last.log[i].codepoints = {hani_dir.rank[q]}
    /\ DOMAIN target.cmap \ DOMAIN last.pre.cmap
         = UNION {last.log[j].codepoints : j \in {i \in DOMAIN last.log : last.log[i].ok}}
    /\ Range(target.order) \ Range(last.pre.order)
         \subseteq UNION {{last.log[j].target_name}
                           \cup {last.log[j].mapping1[n] : n \in DOMAIN last.log[j].mapping1}
                          : j \in DOMAIN last.log}

\* Two characters were injected, the one with the larger codepoint first, as the list
\* ranks them, and a later occurrence of the first was skipped.
C21_Witness ==
  /\ Injection
  /\ Len(last.log) = 2
  /\ last.log[1].ok /\ last.log[2].ok
  /\ last.log[1].codepoints = {CP.Han} /\ last.log[2].codepoints = {CP.B}
  /\ hani_dir.rank = <<CP.Han, CP.B, CP.Han>>

\* C27: after any sequence of merges and injections, every component reference of
\* every glyph of the target names a glyph of the target's glyph order.
C27_NoDanglingComponent ==
  \A n \in Range(target.order) :
    \A c \in Range(target.glyf[n].comps) : c \in Range(target.order)

\* The glyph named n of the target is a copy taken from a source font, and its i-th
\* component reference names a glyph the target has.
C28_Resolved(n, i) ==
  /\ target.glyf[n].outline[1] # 0
  /\ target.glyf[n].comps[i] \in DOMAIN target.glyf

\* C28: a composite glyph copied into the target references only copies of its own
\* source font's components: each component reference that resolves in the target
\* resolves to the copy of the component the glyph has in its source font.
C28_ComponentsOfOwnSource ==
  \A n \in Range(target.order) :
    \A i \in DOMAIN target.glyf[n].comps :
      C28_Resolved(n, i) =>
        LET src == target.glyf[n].outline
        IN target.glyf[target.glyf[n].comps[i]].outline
             = <<src[1], Fonts[src[1]].glyf[src[2]].comps[i]>>

\* The names the call assigned: per handled glyph, the names its newly copied
\* components were given and, when the glyph itself was copied, its target name.
C29_Assigned ==
  UNION {{last.log[j].mapping1[n] : n \in DOMAIN last.log[j].mapping1 \ last.log[j].mapped0}
           \cup (IF last.log[j].ok THEN {last.log[j].target_name} ELSE {})
         : j \in DOMAIN last.log}

\* C29: a supplement merge and a frequency injection only append to the target: every
\* glyph of the glyph order before the call keeps its position, outline and metrics,
\* and the names assigned in the call differ from every earlier name and from each
\* other (one new name per glyph added, appended to the glyph order).
C29_AppendOnly ==
  (SupplementMerge \/ Injection) =>
    /\ target.pad = last.pre.pad
    /\ Len(target.order) >= Len(last.pre.order)
    /\ \A i \in DOMAIN last.pre.order :
         /\ target.order[i] = last.pre.order[i]
         /\ target.glyf[target.order[i]] = last.pre.glyf[last.pre.order[i]]
    /\ C29_Assigned \cap Range(last.pre.order) = {}
    /\ Cardinality(C29_Assigned) = last.ret[1]
    /\ Len(target.order) = Len(last.pre.order) + last.ret[1]
    /\ Range(target.order) = Range(last.pre.order) \cup C29_Assigned

\* A supplement merge into a target that already had glyphs named u0042 and comp_C
\* gave its copies the names u0042.1 and comp_C.1.
C29_Witness ==
  /\ SupplementMerge
  /\ {synthesize_glyph_name(CP.B), CompPrefix \o nC} \subseteq Range(last.pre.order)
  /\ {Suffixed(synthesize_glyph_name(CP.B), 1), Suffixed(CompPrefix \o nC, 1)}
       \subseteq C29_Assigned

\* C30: add_hani_by_frequency rescales what it copies from a donor font: every glyph
\* and component it injected is expressed at the target's units per em.
C30_InjectedAtTargetUpm ==
  Injection =>
    \A n \in Range(target.order) \ Range(last.pre.order) :
      target.glyf[n].units = get_upm(target)

\* The fonts of files, merged one after the other into t as main() merges them.
RECURSIVE MergeAll(_, _, _)
MergeAll(t, files, ord) ==
  IF files = <<>> THEN t
  ELSE MergeAll(merge_glyphs_from_font(Fonts[Head(files).font], t, TRUE, FALSE, FALSE, ord).L.t,
                Tail(files), ord)

\* The files of the results of the last process_fonts_parallel call that main()
\* merges, in ascending filename order.
C22_Usable ==
  get_source_fonts({run.pool.results[j].font_path :
                      j \in {i \in DOMAIN run.pool.results : ~run.pool.results[i].skip}})

\* C22: within each source folder the fonts are merged in ascending filename order,
\* whatever order the workers finish in, and the target after the folder is the one
\* that merging its usable fonts in filename order gives.
C22_FilenameOrder ==
  /\ \A i \in DOMAIN run.merged : \A j \in DOMAIN run.merged :
       (i < j /\ run.merged[i].pass = run.merged[j].pass)
         => FileRank(run.merged[i].file) < FileRank(run.merged[j].file)
  /\ (run.pc = "merge" /\ run.stage = "03a" /\ run.queue = <<>>)
       => target = MergeAll(run.pass_pre, C22_Usable, run.ord)

\* C23: under every interleaving of worker completions process_fonts_parallel returns
\* exactly one result per input path and does not raise; a font whose extraction
\* raises in the worker, whose future fails or that has no TrueType outlines yields a
\* result marked skip, and the other fonts yield their extraction result.
C23_OneResultPerPath ==
  /\ run.pc = "raised" => run.pool.status \notin {"called", "open"}
  /\ run.pool.status = "returned" =>
       /\ Len(run.pool.results) = Len(run.pool.paths)
       /\ \A i \in DOMAIN run.pool.paths :
            LET font_path == run.pool.paths[i]
                faulty == \/ font_path.kind = "corrupt"
                          \/ font_path.kind = "otf"
                          \/ run.pool.outcome[i].raised
                mine == {j \in DOMAIN run.pool.results :
                           run.pool.results[j].font_path = font_path}
            IN /\ Cardinality(mine) = 1
               /\ \A j \in mine :
                    /\ run.pool.results[j].skip = faulty
                    /\ ~faulty => run.pool.results[j] = run.pool.outcome[i].result

\* A call returned three results in another order than the paths were given, one for
\* a future that failed, one for a font without TrueType outlines, one usable.
C23_Witness ==
  /\ run.pool.status = "returned"
  /\ Len(run.pool.paths) = 3
  /\ run.pool.results[1].font_path # run.pool.paths[1]
  /\ \E i \in DOMAIN run.pool.paths :
       run.pool.paths[i].kind = "ttf" /\ run.pool.outcome[i].raised
  /\ \E j \in DOMAIN run.pool.results : ~run.pool.results[j].skip
  /\ \E j \in DOMAIN run.pool.results : run.pool.results[j].reason = "CFF/OTF"

\* C24: an exception raised while loading or merging one source font does not leave
\* main(): the run does not end with that font's exception.
C24_FontFailureContained == ~(run.pc = "raised" /\ run.exc = "TTLibError")

\* s is an initial part of t.
IsPrefix(s, t) == Len(s) <= Len(t) /\ \A i \in DOMAIN s : s[i] = t[i]

\* C25: one run goes through the folders once each, in the order 02, 03, 04, 05, then
\* the frequency-ranked ideographs; no folder is extracted or merged a second time.
C25_EachFolderOnce == IsPrefix(run.passes, <<"02", "03", "04", "05", "hani">>)

\* Every font file of the input folders can be loaded.
C26_AllLoad ==
  \A f \in run.dirs.d02 \cup run.dirs.d03 \cup run.dirs.d04 \cup run.dirs.d05 :
    f.kind # "corrupt"

\* C26: main() raises FileNotFoundError, before any font is opened, when the base font
\* is missing; when the base font exists and every source font loads, it does not
\* raise, and when it returns it has run every pass and saved the output once.
C26_RaisesOnlyForSetup ==
  /\ (~run.base_exists /\ run.pc # "start") =>
       (run.pc = "raised" /\ run.exc = "FileNotFoundError" /\ run.opened = 0)
  /\ (run.base_exists /\ C26_AllLoad) => run.pc # "raised"
  /\ run.pc = "done" =>
       /\ run.saved = 1
       /\ run.passes = IF run.hani THEN <<"02", "03", "04", "05", "hani">>
                       ELSE <<"02", "03", "04", "05">>

====
